---- MODULE Spec2Model ----
(***************************************************************************)
(* A state-machine model of the workout-split editor: the WorkoutScreen    *)
(* component (the Schedule `splits`, the edit mode, the weekday selection, *)
(* the initial load, the derived roster and the debounced save) and the    *)
(* SplitDetailScreen component (add / remove exercise), and the lookup of  *)
(* the split scheduled for a date in the ProgressScreen component.         *)
(*                                                                         *)
(* One action models one handler together with the render and the effects  *)
(* React runs after it, before the next event is handled.  Time is counted *)
(* in ticks of 100 ms.                                                     *)
(***************************************************************************)
EXTENDS Integers, Sequences, FiniteSets, TLC

VARIABLES
  splits,              \* useState<Split[]>: the Schedule
  editMode,            \* useState<EditMode>: "none" | "program" | "splits"
  selectedDay,         \* useState<string | null>: a weekday or "null"
  selectedSplitDetail, \* useState<Split | null>: <<>> or <<split>>
  exercises,           \* useState<Exercise[]>: the derived roster
  isInitialLoadRef,    \* useRef(true)
  loadState,           \* position of loadSplits: "pending" | "done" | "failed"
  storedSplits,        \* what storageService.getSplits() resolves to
  defaultSplits,       \* what storageService.getDefaultWorkoutState() resolves to
  saveTimeoutRef,      \* useRef<Timeout>: <<>> or <<timer>> (the last handle)
  timers,              \* the setTimeout callbacks that are pending
  saving,              \* snapshots of the saveSplits calls in flight
  now,                 \* the clock, in ticks of 100 ms
  dateNow,             \* the last value Date.now() returned
  detailExercises,     \* SplitDetailScreen: useState<ExerciseWithDetails[]>
  detailLoad,          \* SplitDetailScreen: <<>> or <<result>> of loadExercises in flight
  isEditing,           \* SplitDetailScreen: useState(false)
  selection,           \* <<>> or <<closure>>: ExerciseSelection open with onAddExercise
  lastExerciseSave,    \* <<>> or <<call>>: the last saveSplitExercises call
  pendingUpdates,      \* updatedSplits of add/remove calls awaiting the upsert
  ev,                  \* history: the name of the last handler that ran
  mounted,             \* WorkoutScreen is mounted
  mutLog,              \* history: the last ticks `splits` changed at (see LogChange)
  logAfterLoad,        \* history: the changes in mutLog came after loadSplits ended
  savesSince,          \* history: saves started since the last change of `splits`
  lastSave,            \* history: <<>> or <<[at, data]>> of the last save started
  selectedDate,        \* ProgressScreen: useState<string | null>: <<>> or <<date>>
  todayString,         \* ProgressScreen: today's local date as the last render read it
  clockDate,           \* the local date the device's clock shows
  timeZone             \* hours the device's local time is ahead of UTC

editorVars == <<splits, editMode, selectedDay, selectedSplitDetail>>
loadVars   == <<isInitialLoadRef, loadState, storedSplits, defaultSplits, mounted>>
timerVars  == <<saveTimeoutRef, timers>>
histVars   == <<mutLog, logAfterLoad, savesSince, lastSave>>
detailVars == <<detailExercises, detailLoad, isEditing, selection,
                lastExerciseSave>>
progressVars == <<selectedDate, todayString, clockDate, timeZone>>
vars == <<splits, editMode, selectedDay, selectedSplitDetail, exercises,
          isInitialLoadRef, loadState, storedSplits, defaultSplits,
          saveTimeoutRef, timers, saving, now, dateNow, detailExercises,
          detailLoad, isEditing, selection, lastExerciseSave,
          pendingUpdates, ev, mounted,
          mutLog, logAfterLoad, savesSince, lastSave, selectedDate,
          todayString, clockDate, timeZone>>

----------------------------------------------------------------------------
(* Bounds of the model *)

NumDays == 2        \* weekdays the user presses: the first NumDays of WEEKDAYS
NumExercises == 1   \* catalog entries the user picks from
MaxNewIds == 2      \* distinct values Date.now() takes during a run
MaxTime == 8        \* the clock stops at this tick
MaxLen == 2         \* splits the editor models let the Schedule grow to
MaxExercises == 2   \* entries the detail screen's list grows to
MaxPending == 1     \* add/remove calls awaiting their upsert at one time
MaxLog == 3         \* ticks of change of the Schedule the history keeps

(* Program constants *)

MaxSplits == 7      \* handleAddSplit: splits.length >= 7
DebounceMs == 500   \* debouncedSave: setTimeout(..., 500)
Window == DebounceMs \div 100   \* the debounce window, in ticks

WEEKDAYS == <<"Mon", "Tue", "Wed", "Thu", "Fri", "Sat", "Sun">>
COLORS == <<"#1254a1", "#00C2C7", "#1d7322", "#b0b02a", "#db7e2c", "#D72638">>

\* DEFAULT_EXERCISES_BY_BODY_PART, three of its entries (name travels with id)
Catalog ==
  << [id |-> "chest-1", bodyPart |-> "Chest"],
     [id |-> "legs-1",  bodyPart |-> "Legs"],
     [id |-> "chest-2", bodyPart |-> "Chest"] >>

Range(s) == {s[i] : i \in 1..Len(s)}
Min(a, b) == IF a < b THEN a ELSE b

Days == {WEEKDAYS[i] : i \in 1..Min(NumDays, Len(WEEKDAYS))}
Picks == {Catalog[i] : i \in 1..Min(NumExercises, Len(Catalog))}
Names == {""}
Palette == {COLORS[1]}

\* interface Split { id; name; days; color?; exercises }
Split(id, name, days, color, exs) ==
  [id |-> id, name |-> name, days |-> days, color |-> color, exercises |-> exs]

----------------------------------------------------------------------------
(* Pure functions *)

\* acc.find(e => e.id === id): the first index holding id, 0 when none
FindIndex(acc, id) ==
  IF \E i \in 1..Len(acc) : acc[i].id = id
  THEN CHOOSE i \in 1..Len(acc) :
         acc[i].id = id /\ \A j \in 1..(i - 1) : acc[j].id # id
  ELSE 0

\* a faulty forEach body: it pushes the split id without looking for it
MergeExerciseNoLookup(acc, exercise, splitId) ==
  LET i == FindIndex(acc, exercise.id) IN
  IF i > 0
  THEN [acc EXCEPT ![i].splitIds = Append(@, splitId)]
  ELSE Append(acc, [id |-> exercise.id, bodyPart |-> exercise.bodyPart,
                    splitIds |-> <<splitId>>])

\* the body of split.exercises.forEach in processSplitsData
MergeExercise(acc, exercise, splitId) ==
  LET i == FindIndex(acc, exercise.id) IN
  IF i > 0
  THEN IF splitId \in Range(acc[i].splitIds) THEN acc
       ELSE [acc EXCEPT ![i].splitIds = Append(@, splitId)]
  ELSE Append(acc, [id |-> exercise.id, bodyPart |-> exercise.bodyPart,
                    splitIds |-> <<splitId>>])

RECURSIVE MergeSplit(_, _, _)
MergeSplit(acc, exs, splitId) ==
  IF exs = <<>> THEN acc
  ELSE MergeSplit(MergeExercise(acc, Head(exs), splitId), Tail(exs), splitId)

RECURSIVE ReduceSplits(_, _)
ReduceSplits(acc, splitsData) ==
  IF splitsData = <<>> THEN acc
  ELSE ReduceSplits(MergeSplit(acc, Head(splitsData).exercises, Head(splitsData).id),
                    Tail(splitsData))

\* processSplitsData(splitsData).exercises: the deduplicated roster
processSplitsData(splitsData) == ReduceSplits(<<>>, splitsData)

\* the key of exercisesByBodyPart that is bodyPart: its position in insertion
\* order, 0 when the object has no such key
FindSection(acc, bodyPart) ==
  IF \E i \in 1..Len(acc) : acc[i].bodyPart = bodyPart
  THEN CHOOSE i \in 1..Len(acc) : acc[i].bodyPart = bodyPart
  ELSE 0

\* a faulty reducer body: a new body part goes in front of the others
AddToSectionInFront(acc, exercise) ==
  LET i == FindSection(acc, exercise.bodyPart) IN
  IF i > 0 THEN [acc EXCEPT ![i].exercises = Append(@, exercise)]
  ELSE <<[id |-> exercise.bodyPart, bodyPart |-> exercise.bodyPart,
          exercises |-> <<exercise>>]>> \o acc

\* a faulty reducer body: the exercise replaces the list of its body part
AddToSectionReplacing(acc, exercise) ==
  LET i == FindSection(acc, exercise.bodyPart) IN
  IF i > 0 THEN [acc EXCEPT ![i].exercises = <<exercise>>]
  ELSE Append(acc, [id |-> exercise.bodyPart, bodyPart |-> exercise.bodyPart,
                    exercises |-> <<exercise>>])

\* the body of exercises.reduce in processSplitsData: acc[bodyPart] is created
\* on first encounter and pushed to afterwards.  The object is kept as the
\* list of its entries in insertion order, the order Object.entries gives
\* for keys that are not array indices (body parts are names).
AddToSection(acc, exercise) ==
  LET i == FindSection(acc, exercise.bodyPart) IN
  IF i > 0 THEN [acc EXCEPT ![i].exercises = Append(@, exercise)]
  ELSE Append(acc, [id |-> exercise.bodyPart, bodyPart |-> exercise.bodyPart,
                    exercises |-> <<exercise>>])

RECURSIVE GroupExercises(_, _)
GroupExercises(acc, roster) ==
  IF roster = <<>> THEN acc
  ELSE GroupExercises(AddToSection(acc, Head(roster)), Tail(roster))

\* processSplitsData(splitsData).bodyPartSections, from the roster
bodyPartSections(roster) == GroupExercises(<<>>, roster)

\* a faulty updater: appends the day without removing it first
AssignDayNoRemoval(prevSplits, day, splitId) ==
  [i \in 1..Len(prevSplits) |->
     IF prevSplits[i].id = splitId
     THEN [prevSplits[i] EXCEPT !.days = Append(@, day)]
     ELSE prevSplits[i]]

\* the updater of handleSplitSelect: remove the day everywhere, then append it
\* to every split whose id is the pressed split's id
AssignDay(prevSplits, day, splitId) ==
  LET updatedSplits ==
        [i \in 1..Len(prevSplits) |->
           [prevSplits[i] EXCEPT !.days = SelectSeq(@, LAMBDA d : d # day)]]
  IN [i \in 1..Len(updatedSplits) |->
        IF updatedSplits[i].id = splitId
        THEN [updatedSplits[i] EXCEPT !.days = Append(@, day)]
        ELSE updatedSplits[i]]

----------------------------------------------------------------------------
(* The debounced save and the effects that follow a change of `splits` *)

\* debouncedSave(data): clearTimeout(saveTimeoutRef.current), then setTimeout
debouncedSave(data) ==
  LET t == [data |-> data, due |-> now + Window] IN
  /\ timers' = (timers \ Range(saveTimeoutRef)) \cup {t}
  /\ saveTimeoutRef' = <<t>>

\* faulty effects: they do not test the flag of the initial load
EffectsOnSplitsUnguarded(flag, newSplits) ==
  /\ exercises' = processSplitsData(newSplits)
  /\ debouncedSave(newSplits)

\* the two effects on [splits]: recompute the roster, start the debounced save
EffectsOnSplits(flag, newSplits) ==
  IF flag
  THEN UNCHANGED <<exercises, saveTimeoutRef, timers>>
  ELSE /\ exercises' = processSplitsData(newSplits)
       /\ debouncedSave(newSplits)

\* history: a change of `splits` at this tick.  The log holds a tick once,
\* starts again after a save was started, and keeps its last MaxLog entries.
LogChange(afterLoad) ==
  LET log == IF savesSince > 0 THEN <<now>>
             ELSE IF mutLog # <<>> /\ mutLog[Len(mutLog)] = now THEN mutLog
             ELSE Append(mutLog, now)
  IN
  /\ mutLog' = IF Len(log) > MaxLog THEN Tail(log) ELSE log
  /\ logAfterLoad' = IF savesSince > 0 \/ mutLog = <<>> THEN afterLoad
                     ELSE logAfterLoad
  /\ savesSince' = 0
  /\ UNCHANGED lastSave

\* setSplits(newSplits), the render and the effects it causes
SetSplits(newSplits) ==
  /\ splits' = newSplits
  /\ EffectsOnSplits(isInitialLoadRef, newSplits)
  /\ LogChange(loadState # "pending")

\* what a handler leaves alone when it does not touch `splits`
NoSplitsChange ==
  UNCHANGED <<splits, exercises, saveTimeoutRef, timers, histVars>>

----------------------------------------------------------------------------
(* WorkoutScreen: edit mode and weekday selection *)

\* a faulty toggle: it enters program mode from any other mode
toggleProgramEditModeFromAny ==
  /\ ev' = "toggleProgram"
  /\ IF editMode = "program"
     THEN selectedDay' = "null" /\ editMode' = "none"
     ELSE editMode' = "program" /\ UNCHANGED selectedDay
  /\ NoSplitsChange
  /\ UNCHANGED <<selectedSplitDetail, loadVars, progressVars, saving, now,
                 dateNow, detailVars, pendingUpdates>>

toggleProgramEditMode ==
  /\ ev' = "toggleProgram"
  /\ IF editMode = "program"
     THEN selectedDay' = "null" /\ editMode' = "none"
     ELSE IF editMode = "none"
          THEN editMode' = "program" /\ UNCHANGED selectedDay
          ELSE UNCHANGED <<editMode, selectedDay>>
  /\ NoSplitsChange
  /\ UNCHANGED <<selectedSplitDetail, loadVars, progressVars, saving, now,
                 dateNow, detailVars, pendingUpdates>>

toggleSplitsEditMode ==
  /\ ev' = "toggleSplits"
  /\ IF editMode = "splits"
     THEN editMode' = "none"
     ELSE IF editMode = "none"
          THEN editMode' = "splits"
          ELSE UNCHANGED editMode
  /\ NoSplitsChange
  /\ UNCHANGED <<selectedDay, selectedSplitDetail, loadVars, progressVars,
                 saving, now, dateNow, detailVars, pendingUpdates>>

\* a faulty handler: it selects the day whatever the edit mode
handleDaySelectAnyMode(day) ==
  /\ ev' = "daySelect"
  /\ IF selectedDay = day
     THEN selectedDay' = "null"
     ELSE selectedDay' = day
  /\ NoSplitsChange
  /\ UNCHANGED <<editMode, selectedSplitDetail, loadVars, progressVars,
                 saving, now, dateNow, detailVars, pendingUpdates>>

handleDaySelect(day) ==
  /\ ev' = "daySelect"
  /\ IF editMode # "program"
     THEN UNCHANGED selectedDay
     ELSE IF selectedDay = day
          THEN selectedDay' = "null"
          ELSE selectedDay' = day
  /\ NoSplitsChange
  /\ UNCHANGED <<editMode, selectedSplitDetail, loadVars, progressVars,
                 saving, now, dateNow, detailVars, pendingUpdates>>

\* handleSplitSelect(split): only reached from handleSplitPress
handleSplitSelect(split) ==
  /\ SetSplits(AssignDay(splits, selectedDay, split.id))
  /\ selectedDay' = "null"
  /\ UNCHANGED <<selectedSplitDetail, detailVars>>

\* handleSplitPress(split), split being the i-th split rendered
handleSplitPress(i) ==
  LET split == splits[i] IN
  /\ i \in 1..Len(splits)
  /\ IF selectedDay # "null" /\ editMode = "program"
     THEN ev' = "assign" /\ handleSplitSelect(split)
     ELSE IF editMode = "none"
          THEN \* the detail screen mounts: empty list, loadExercises starts
               /\ ev' = "openDetail"
               /\ selectedSplitDetail' = <<split>>
               /\ detailExercises' = <<>>
               /\ detailLoad' = <<split.exercises>>
               /\ isEditing' = FALSE
               /\ selection' = <<>>
               /\ lastExerciseSave' =
                    <<[splitId |-> split.id, exercises |-> <<>>,
                       loaded |-> FALSE]>>
               /\ NoSplitsChange
               /\ UNCHANGED selectedDay
          ELSE /\ ev' = "splitPress"
               /\ NoSplitsChange
               /\ UNCHANGED <<selectedDay, selectedSplitDetail, detailVars>>
  /\ UNCHANGED <<editMode, loadVars, progressVars, saving, now, dateNow,
                 pendingUpdates>>

----------------------------------------------------------------------------
(* WorkoutScreen: the Split Editor *)

Mutation(op, newSplits) ==
  /\ ev' = op
  /\ SetSplits(newSplits)
  /\ UNCHANGED <<editMode, selectedDay, selectedSplitDetail, loadVars,
                 progressVars, saving, now, detailVars, pendingUpdates>>

Blocked(op) ==
  /\ ev' = op
  /\ NoSplitsChange
  /\ UNCHANGED <<editMode, selectedDay, selectedSplitDetail, loadVars,
                 progressVars, saving, now, dateNow, detailVars,
                 pendingUpdates>>

\* a faulty handler: the map renames every split, whatever its id
handleSplitNameEditEvery(splitId, newName) ==
  IF editMode # "splits" THEN Blocked("rename")
  ELSE /\ Mutation("rename",
            [i \in 1..Len(splits) |-> [splits[i] EXCEPT !.name = newName]])
       /\ UNCHANGED dateNow

handleSplitNameEdit(splitId, newName) ==
  IF editMode # "splits" THEN Blocked("rename")
  ELSE /\ Mutation("rename",
            [i \in 1..Len(splits) |->
               IF splits[i].id = splitId
               THEN [splits[i] EXCEPT !.name = newName] ELSE splits[i]])
       /\ UNCHANGED dateNow

handleColorSelect(splitId, color) ==
  IF editMode # "splits" THEN Blocked("recolor")
  ELSE /\ Mutation("recolor",
            [i \in 1..Len(splits) |->
               IF splits[i].id = splitId
               THEN [splits[i] EXCEPT !.color = color] ELSE splits[i]])
       /\ UNCHANGED dateNow

\* a faulty handler: the length test is off by one
handleAddSplitPastCap(stamp) ==
  IF editMode # "splits" \/ Len(splits) > MaxSplits THEN Blocked("create")
  ELSE /\ stamp >= dateNow
       /\ dateNow' = stamp
       /\ Mutation("create", Append(splits, Split(stamp, "", <<>>, "none", <<>>)))

\* Date.now().toString(): a value not below the last one read
handleAddSplit(stamp) ==
  IF editMode # "splits" \/ Len(splits) >= MaxSplits THEN Blocked("create")
  ELSE /\ stamp >= dateNow
       /\ dateNow' = stamp
       /\ Mutation("create", Append(splits, Split(stamp, "", <<>>, "none", <<>>)))

\* a faulty handler: the filter keeps the splits it should drop
handleDeleteSplitInverted(splitId) ==
  IF editMode # "splits" THEN Blocked("delete")
  ELSE /\ Mutation("delete", SelectSeq(splits, LAMBDA s : s.id = splitId))
       /\ UNCHANGED dateNow

handleDeleteSplit(splitId) ==
  IF editMode # "splits" THEN Blocked("delete")
  ELSE /\ Mutation("delete", SelectSeq(splits, LAMBDA s : s.id # splitId))
       /\ UNCHANGED dateNow

handleSplitDetailClose ==
  /\ ev' = "closeDetail"
  /\ selectedSplitDetail' = <<>>
  /\ detailExercises' = <<>>
  /\ detailLoad' = <<>>
  /\ isEditing' = FALSE
  /\ selection' = <<>>
  /\ NoSplitsChange
  /\ UNCHANGED <<editMode, selectedDay, loadVars, progressVars, saving, now,
                 dateNow, pendingUpdates, lastExerciseSave>>

handleSplitDetailUpdate(updatedSplit) ==
  /\ Mutation("detailUpdate",
       [i \in 1..Len(splits) |->
          IF splits[i].id = updatedSplit.id THEN updatedSplit ELSE splits[i]])
  /\ UNCHANGED dateNow

----------------------------------------------------------------------------
(* WorkoutScreen: the initial load *)

\* loadSplits, a non-empty result: setSplits, processSplitsData, setExercises,
\* isInitialLoadRef.current = false.  With batched updates the render (and the
\* effects on [splits]) comes after the flag is cleared, without it before.
LoadInto(data, batched) ==
  /\ splits' = data
  /\ isInitialLoadRef' = FALSE
  /\ loadState' = "done"
  /\ IF batched
     THEN EffectsOnSplits(FALSE, data)
     ELSE exercises' = processSplitsData(data) /\ UNCHANGED <<saveTimeoutRef, timers>>
  /\ mutLog' = IF batched THEN <<now>> ELSE <<>>
  /\ logAfterLoad' = TRUE
  /\ savesSince' = 0
  /\ UNCHANGED <<editMode, selectedDay, selectedSplitDetail, storedSplits,
                 defaultSplits, progressVars, mounted, saving, now, dateNow,
                 detailVars, pendingUpdates, lastSave>>

loadSplitsSaved(batched) ==
  /\ loadState = "pending"
  /\ Len(storedSplits) > 0
  /\ ev' = "loadSaved"
  /\ LoadInto(storedSplits, batched)

\* a faulty load: the default state is used whether or not saved splits exist
loadSplitsDefaultAlways(batched) ==
  /\ loadState = "pending"
  /\ Len(defaultSplits) > 0
  /\ ev' = "loadDefault"
  /\ LoadInto(defaultSplits, batched)

loadSplitsDefault(batched) ==
  /\ loadState = "pending"
  /\ Len(storedSplits) = 0
  /\ Len(defaultSplits) > 0
  /\ ev' = "loadDefault"
  /\ LoadInto(defaultSplits, batched)

loadSplitsNothing ==
  /\ loadState = "pending"
  /\ Len(storedSplits) = 0
  /\ Len(defaultSplits) = 0
  /\ ev' = "loadNothing"
  /\ isInitialLoadRef' = FALSE
  /\ loadState' = "done"
  /\ NoSplitsChange
  /\ UNCHANGED <<editMode, selectedDay, selectedSplitDetail, storedSplits,
                 defaultSplits, progressVars, mounted, saving, now, dateNow,
                 detailVars, pendingUpdates>>

\* getSplits or getDefaultWorkoutState rejects: the catch block only logs
loadSplitsFail ==
  /\ loadState = "pending"
  /\ ev' = "loadError"
  /\ loadState' = "failed"
  /\ NoSplitsChange
  /\ UNCHANGED <<editMode, selectedDay, selectedSplitDetail, isInitialLoadRef,
                 storedSplits, defaultSplits, progressVars, mounted, saving,
                 now, dateNow, detailVars, pendingUpdates>>

----------------------------------------------------------------------------
(* The clock, the debounce timer and the save it starts *)

\* time passes; a timer that is due fires before the clock moves on
Tick ==
  /\ now < MaxTime
  /\ \A t \in timers : t.due > now
  /\ now' = now + 1
  /\ UNCHANGED <<editorVars, exercises, loadVars, progressVars, timerVars,
                 saving, dateNow, detailVars, pendingUpdates, ev, histVars>>

\* the setTimeout callback of debouncedSave: storageService.saveSplits(data)
TimerFire(t) ==
  /\ t \in timers
  /\ t.due <= now
  /\ ev' = "saveStart"
  /\ timers' = timers \ {t}
  /\ saving' = saving \cup {t.data}
  /\ lastSave' = <<[at |-> now, data |-> t.data]>>
  /\ savesSince' = savesSince + 1
  /\ UNCHANGED <<editorVars, exercises, loadVars, progressVars,
                 saveTimeoutRef, now, dateNow, detailVars, pendingUpdates,
                 mutLog, logAfterLoad>>

saveSplitsOk(data) ==
  /\ data \in saving
  /\ ev' = "saveOk"
  /\ saving' = saving \ {data}
  /\ storedSplits' = data
  /\ UNCHANGED <<editorVars, exercises, isInitialLoadRef, loadState,
                 defaultSplits, progressVars, mounted, timerVars, now,
                 dateNow, detailVars, pendingUpdates, histVars>>

\* a faulty catch block: it schedules the save again
saveSplitsFailRetry(data) ==
  /\ data \in saving
  /\ ev' = "saveError"
  /\ saving' = saving \ {data}
  /\ debouncedSave(data)
  /\ UNCHANGED <<editorVars, exercises, loadVars, progressVars, now, dateNow,
                 detailVars, pendingUpdates, histVars>>

\* saveSplits rejects: the catch block only logs
saveSplitsFail(data) ==
  /\ data \in saving
  /\ ev' = "saveError"
  /\ saving' = saving \ {data}
  /\ UNCHANGED <<editorVars, exercises, loadVars, progressVars, timerVars,
                 now, dateNow, detailVars, pendingUpdates, histVars>>

\* a faulty teardown: the pending timer is left running
UnmountNoCleanup ==
  /\ mounted
  /\ ev' = "unmount"
  /\ mounted' = FALSE
  /\ UNCHANGED timers
  /\ UNCHANGED <<editorVars, exercises, isInitialLoadRef, loadState,
                 storedSplits, defaultSplits, progressVars, saveTimeoutRef,
                 saving, now, dateNow, detailVars, pendingUpdates, histVars>>

\* the cleanup of the last effect: clearTimeout(saveTimeoutRef.current)
Unmount ==
  /\ mounted
  /\ ev' = "unmount"
  /\ mounted' = FALSE
  /\ timers' = timers \ Range(saveTimeoutRef)
  /\ UNCHANGED <<editorVars, exercises, isInitialLoadRef, loadState,
                 storedSplits, defaultSplits, progressVars, saveTimeoutRef,
                 saving, now, dateNow, detailVars, pendingUpdates, histVars>>

----------------------------------------------------------------------------
(* SplitDetailScreen *)

DetailStep(op) ==
  /\ ev' = op
  /\ NoSplitsChange
  /\ UNCHANGED <<editMode, selectedDay, selectedSplitDetail, loadVars,
                 progressVars, saving, now, dateNow>>

\* the effect on [exercises]: saveSplitExercises(split.id, exercises); the
\* call is recorded with whether loadExercises had resolved by then
saveExercises(list, loaded) ==
  lastExerciseSave' = <<[splitId |-> selectedSplitDetail[1].id,
                         exercises |-> list, loaded |-> loaded]>>

\* loadExercises resolves: a non-empty result replaces the local list
loadExercisesDone ==
  /\ detailLoad # <<>>
  /\ DetailStep("loadExercises")
  /\ detailExercises' = IF Len(detailLoad[1]) > 0 THEN detailLoad[1]
                        ELSE detailExercises
  /\ IF Len(detailLoad[1]) > 0 THEN saveExercises(detailLoad[1], TRUE)
     ELSE UNCHANGED lastExerciseSave
  /\ detailLoad' = <<>>
  /\ UNCHANGED <<isEditing, selection, pendingUpdates>>

toggleIsEditing ==
  /\ DetailStep("toggleEditing")
  /\ isEditing' = ~isEditing
  /\ UNCHANGED <<detailExercises, detailLoad, selection, pendingUpdates,
                 lastExerciseSave>>

\* addExerciseButton.onPress: navigate to ExerciseSelection with the
\* handleAddExercise of this render, which closes over exercises and splits
openExerciseSelection ==
  /\ DetailStep("openSelection")
  /\ selection' = <<[exercises |-> detailExercises, splits |-> splits]>>
  /\ UNCHANGED <<detailExercises, detailLoad, isEditing, pendingUpdates,
                 lastExerciseSave>>

\* splits.map(s => s.id === split.id ? {...split, exercises: list} : s)
ReplaceExercises(splitsSeen, split, list) ==
  [i \in 1..Len(splitsSeen) |->
     IF splitsSeen[i].id = split.id
     THEN [split EXCEPT !.exercises = list] ELSE splitsSeen[i]]

\* handleAddExercise(newExercises), up to its first await
handleAddExercise(newExercises) ==
  LET split == selectedSplitDetail[1]
      list == selection[1].exercises \o newExercises
  IN /\ DetailStep("addExercise")
     /\ detailExercises' = detailExercises \o newExercises
     /\ saveExercises(detailExercises', detailLoad = <<>>)
     /\ pendingUpdates' = pendingUpdates \cup
                            {ReplaceExercises(selection[1].splits, split, list)}
     /\ selection' = <<>>
     /\ UNCHANGED <<detailLoad, isEditing>>

\* handleRemoveExercise(index), up to its first await (index counted from 1)
handleRemoveExercise(index) ==
  LET split == selectedSplitDetail[1]
      updatedExercises ==
        [j \in 1..(Len(detailExercises) - 1) |->
           IF j < index THEN detailExercises[j] ELSE detailExercises[j + 1]]
  IN /\ DetailStep("removeExercise")
     /\ detailExercises' = IF index \in 1..Len(detailExercises)
                           THEN updatedExercises ELSE detailExercises
     /\ saveExercises(detailExercises', detailLoad = <<>>)
     /\ pendingUpdates' = pendingUpdates \cup
                            {ReplaceExercises(splits, split, detailExercises')}
     /\ UNCHANGED <<detailLoad, isEditing, selection>>

\* the awaits of an add/remove call are over: updateSplits(updatedSplits)
updateSplits(updatedSplits) ==
  /\ updatedSplits \in pendingUpdates
  /\ ev' = "updateSplits"
  /\ pendingUpdates' = pendingUpdates \ {updatedSplits}
  /\ SetSplits(updatedSplits)
  /\ UNCHANGED <<editMode, selectedDay, selectedSplitDetail, loadVars,
                 progressVars, saving, now, dateNow, detailVars>>

----------------------------------------------------------------------------
(* ProgressScreen: the split scheduled for a date *)

\* A date is a day number: 1 is Monday 2024-09-30, 2 is Tuesday 2024-10-01
\* and so on through October; 0 is Sunday 2024-09-29.  An instant is a number
\* of hours since the UTC midnight of day 0.
NumDates == 7
Dates == 1..NumDates
TimeZones == {0 - 5, 0, 9}
DayNames == <<"Sun", "Mon", "Tue", "Wed", "Thu", "Fri", "Sat">>

\* new Date(dateString): a date-only string is read as midnight UTC
ParseDate(dateString) == dateString * 24

\* date.getDay(): the weekday, Sunday = 0, of the instant in local time
getDay(date) == ((date + timeZone) \div 24) % 7

\* getDayOfWeek(dateString), for a date that is not null
getDayOfWeek(dateString) == DayNames[getDay(ParseDate(dateString)) + 1]

\* splits.find(split => split.days.includes(dayOfWeek)): <<>> or <<split>>
getScheduledSplit(dayOfWeek) ==
  LET found == {i \in 1..Len(splits) :
                  \E d \in 1..Len(splits[i].days) : splits[i].days[d] = dayOfWeek}
  IN IF found = {} THEN <<>>
     ELSE <<splits[CHOOSE i \in found : \A j \in found : i <= j]>>

\* the useMemo over selectedDate || todayString
scheduledSplit ==
  getScheduledSplit(getDayOfWeek(IF selectedDate # <<>> THEN selectedDate[1]
                                 ELSE todayString))

\* the calendar date of a day number
getFullYear(date) == 2024
getMonth(date) == IF date <= 1 THEN 8 ELSE 9        \* January is 0
getDate(date) == IF date <= 1 THEN 29 + date ELSE date - 1

\* Strings are sequences of character codes: "0" is 48, "-" is 45.
RECURSIVE Decimal(_)
\* String(n)
Decimal(n) ==
  IF n < 10 THEN <<48 + n>> ELSE Decimal(n \div 10) \o <<48 + (n % 10)>>

\* str.padStart(2, "0")
padStart2(str) == IF Len(str) < 2 THEN <<48>> \o str ELSE str

\* the template of todayString, for the date the render read
FormatToday(date) ==
  Decimal(getFullYear(date)) \o <<45>> \o padStart2(Decimal(getMonth(date) + 1))
    \o <<45>> \o padStart2(Decimal(getDate(date)))

\* the dateString the calendar passes for a day: YYYY-MM-DD, two digits each
DateString(date) ==
  Decimal(getFullYear(date)) \o <<45>>
    \o <<48 + ((getMonth(date) + 1) \div 10), 48 + ((getMonth(date) + 1) % 10)>>
    \o <<45>> \o <<48 + (getDate(date) \div 10), 48 + (getDate(date) % 10)>>

RECURSIVE StringGreater(_, _)
\* a > b on strings: by the first character that differs, a prefix being less
StringGreater(a, b) ==
  IF a = <<>> THEN FALSE
  ELSE IF b = <<>> THEN TRUE
  ELSE IF Head(a) # Head(b) THEN Head(a) > Head(b)
  ELSE StringGreater(Tail(a), Tail(b))

\* the useMemo over selectedDate and todayString
isFutureDate ==
  IF selectedDate = <<>> THEN FALSE
  ELSE StringGreater(DateString(selectedDate[1]), FormatToday(todayString))

\* handleDayPress(date), with the todayString of the last render; the render
\* that follows a change of selectedDate reads the clock again
handleDayPress(date) ==
  /\ ev' = "dayPress"
  /\ selectedDate' = IF \/ DateString(date) = FormatToday(todayString)
                        \/ selectedDate = <<date>>
                     THEN <<>> ELSE <<date>>
  /\ todayString' = IF selectedDate' # selectedDate THEN clockDate
                    ELSE todayString
  /\ NoSplitsChange
  /\ UNCHANGED <<editMode, selectedDay, selectedSplitDetail, loadVars, saving,
                 now, dateNow, detailVars, pendingUpdates, clockDate,
                 timeZone>>

ProgressStep(op) ==
  /\ ev' = op
  /\ NoSplitsChange
  /\ UNCHANGED <<editMode, selectedDay, selectedSplitDetail, loadVars, saving,
                 now, dateNow, detailVars, pendingUpdates, selectedDate,
                 timeZone>>

\* midnight passes on the device; nothing renders
Midnight ==
  /\ clockDate < NumDates
  /\ ProgressStep("midnight")
  /\ clockDate' = clockDate + 1
  /\ UNCHANGED todayString

\* the component renders again (the data of the context changed):
\* const today = new Date()
Render ==
  /\ ProgressStep("render")
  /\ todayString' = clockDate
  /\ UNCHANGED clockDate

----------------------------------------------------------------------------
(* Initial states *)

\* the Schedule of the example: A on Mon with chest-1, B on Wed with chest-1, legs-1
SavedSchedule ==
  << Split(1, "Push", <<"Mon">>, "none", <<Catalog[1]>>),
     Split(2, "Pull", <<"Wed">>, COLORS[1], <<Catalog[1], Catalog[2]>>) >>

DefaultSchedule == << Split(3, "Legs", <<"Tue">>, "none", <<Catalog[2]>>) >>

InitEditor(stored, default) ==
  /\ splits = <<>>
  /\ editMode = "none"
  /\ selectedDay = "null"
  /\ selectedSplitDetail = <<>>
  /\ exercises = <<>>
  /\ isInitialLoadRef = TRUE
  /\ loadState = "pending"
  /\ storedSplits = stored
  /\ defaultSplits = default
  /\ saveTimeoutRef = <<>>
  /\ timers = {}
  /\ saving = {}
  /\ now = 0
  /\ dateNow = 10
  /\ detailExercises = <<>>
  /\ detailLoad = <<>>
  /\ isEditing = FALSE
  /\ selection = <<>>
  /\ lastExerciseSave = <<>>
  /\ pendingUpdates = {}
  /\ ev = "mount"
  /\ mounted = TRUE
  /\ mutLog = <<>>
  /\ logAfterLoad = FALSE
  /\ savesSince = 0
  /\ lastSave = <<>>

\* ProgressScreen at mount: no date selected
InitProgress(today, zone) ==
  /\ selectedDate = <<>>
  /\ todayString = today
  /\ clockDate = today
  /\ timeZone = zone

InitWith(stored, default) ==
  InitEditor(stored, default) /\ InitProgress(1, 0)

Init ==
  \E stored \in {<<>>, SavedSchedule}, default \in {<<>>, DefaultSchedule} :
    InitWith(stored, default)

\* a Schedule of n splits, the i-th on the i-th weekday
BigSchedule(n) ==
  [i \in 1..n |-> Split(i, "", <<WEEKDAYS[i]>>, "none", <<>>)]

InitAssign == InitWith(SavedSchedule, <<>>)

\* the sequences over S of length n at most
SeqsUpTo(S, n) == UNION {[1..k -> S] : k \in 0..n}

\* a Schedule of k splits with the given ids and exercise lists
ScheduleOf(k, ids, exs) ==
  [i \in 1..k |-> Split(ids[i], "", <<>>, "none", exs[i])]

\* the load finds a Schedule of MaxLen splits at most, each with MaxExercises
\* catalog exercises at most in any order, repeats included; a split has an
\* id of its own or the id of the first split
InitDerive ==
  \E k \in 0..MaxLen :
    \E ids \in {f \in [1..k -> 1..k] : \A i \in 1..k : f[i] \in {1, i}},
       exs \in [1..k -> SeqsUpTo(Range(Catalog), MaxExercises)] :
      InitWith(ScheduleOf(k, ids, exs), <<>>)

\* the saved Schedule, any day as today, any of the time zones
InitLookup ==
  \E today \in Dates, zone \in TimeZones :
    InitEditor(SavedSchedule, <<>>) /\ InitProgress(today, zone)

InitCard ==
  \E n \in {MaxSplits - 1, MaxSplits} : InitWith(BigSchedule(n), <<>>)

InitDetail ==
  InitWith(<< Split(1, "Push", <<"Mon">>, "none", <<Catalog[1]>>),
              Split(2, "Pull", <<>>, "none", <<>>) >>, <<>>)

InitTimed == \E stored \in {<<>>, DefaultSchedule} : InitWith(stored, <<>>)

----------------------------------------------------------------------------
(* What the user can reach *)

\* WorkoutScreen renders the detail screen alone while a split is open
MainVisible == selectedSplitDetail = <<>>
DetailVisible == selectedSplitDetail # <<>> /\ selection = <<>>

Stamps == dateNow..(10 + MaxNewIds - 1)
IdsShown == {splits[i].id : i \in 1..Len(splits)}
\* the ids handleDeleteSplit is called with: those shown, and 0, which no
\* split has
IdsAsked == IdsShown \cup {0}
\* the names typed, the empty one among them, and the colors of the palette
NamesAsked == {"", "Arms"}
ColorsAsked == Range(COLORS)
AddLists == {<<p>> : p \in Picks}

\* what the detail screen hands to onUpdate: its split, one exercise added
DetailUpdates ==
  {[selectedSplitDetail[1] EXCEPT !.exercises = Append(@, Catalog[1])]}

Load ==
  \/ \E batched \in BOOLEAN : loadSplitsSaved(batched)
  \/ \E batched \in BOOLEAN : loadSplitsDefault(batched)
  \/ loadSplitsNothing
  \/ loadSplitsFail

ModeAndDay ==
  /\ MainVisible
  /\ \/ toggleProgramEditMode
     \/ toggleSplitsEditMode
     \/ \E day \in Days : handleDaySelect(day)
     \/ \E i \in 1..Len(splits) : handleSplitPress(i)

CreateDelete ==
  /\ MainVisible
  /\ \/ Len(splits) < MaxLen /\ \E stamp \in Stamps : handleAddSplit(stamp)
     \/ \E id \in IdsShown : handleDeleteSplit(id)

RenameRecolor ==
  /\ MainVisible
  /\ \/ \E id \in IdsShown, n \in Names : handleSplitNameEdit(id, n)
     \/ \E id \in IdsShown, c \in Palette : handleColorSelect(id, c)

DetailSync ==
  /\ DetailVisible
  /\ \/ handleSplitDetailClose
     \/ \E u \in DetailUpdates :
          Len(u.exercises) <= MaxExercises /\ handleSplitDetailUpdate(u)

DetailAsync ==
  \/ loadExercisesDone
  \/ DetailVisible /\ handleSplitDetailClose
  \/ DetailVisible /\ toggleIsEditing
  \/ DetailVisible /\ isEditing /\ openExerciseSelection
  \/ /\ selection # <<>>
     /\ Cardinality(pendingUpdates) < MaxPending
     /\ \E l \in AddLists :
          Len(detailExercises) + Len(l) <= MaxExercises /\ handleAddExercise(l)
  \/ /\ DetailVisible /\ isEditing
     /\ Cardinality(pendingUpdates) < MaxPending
     /\ \E index \in 1..Len(detailExercises) : handleRemoveExercise(index)
  \/ \E u \in pendingUpdates : updateSplits(u)

\* create and delete, every new split taking the value Date.now() last had
TimedEdits ==
  /\ MainVisible
  /\ \/ Len(splits) < MaxLen /\ handleAddSplit(dateNow)
     \/ \E id \in IdsShown : handleDeleteSplit(id)

Timed ==
  \/ Tick
  \/ \E t \in timers : TimerFire(t)
  \/ \E d \in saving : saveSplitsOk(d)
  \/ \E d \in saving : saveSplitsFail(d)

----------------------------------------------------------------------------
(* Specifications *)

\* the Split Editor of WorkoutScreen: every handler that changes the Schedule
Next == Load \/ ModeAndDay \/ CreateDelete \/ RenameRecolor \/ DetailSync
Spec == Init /\ [][Next]_vars

\* weekday assignment among splits that come and go
NextAssign ==
  \/ \E batched \in BOOLEAN : loadSplitsSaved(batched)
  \/ loadSplitsFail
  \/ toggleProgramEditMode
  \/ toggleSplitsEditMode
  \/ \E day \in Days : handleDaySelect(day)
  \/ editMode # "none" /\ \E i \in 1..Len(splits) : handleSplitPress(i)
  \/ CreateDelete
SpecAssign == InitAssign /\ [][NextAssign]_vars

\* the cap on the number of splits, from a loaded Schedule at or next to the cap
NextCard ==
  \/ \E batched \in BOOLEAN : loadSplitsSaved(batched)
  \/ loadSplitsFail
  \/ MainVisible /\ toggleSplitsEditMode
  \/ MainVisible /\ \E stamp \in Stamps : handleAddSplit(stamp)
  \/ MainVisible /\ \E id \in IdsAsked : handleDeleteSplit(id)
SpecCard == InitCard /\ [][NextCard]_vars

\* the derivation, applied by the load to Schedules of every shape
\* the load, and the creates and deletes that may come before or after it
NextLoad ==
  \/ Load
  \/ MainVisible /\ toggleSplitsEditMode
  \/ CreateDelete
SpecLoad == Init /\ [][NextLoad]_vars

\* the calendar of the ProgressScreen over the loaded Schedule
NextLookup ==
  \/ loadSplitsSaved(FALSE)
  \/ \E date \in Dates : handleDayPress(date)
SpecLookup == InitLookup /\ [][NextLookup]_vars

\* renaming and recoloring the splits of the loaded Schedule
NextRename ==
  \/ loadSplitsSaved(FALSE)
  \/ MainVisible /\ toggleSplitsEditMode
  \/ MainVisible /\ \E id \in IdsAsked, n \in NamesAsked :
                       handleSplitNameEdit(id, n)
  \/ MainVisible /\ \E id \in IdsAsked, c \in ColorsAsked :
                       handleColorSelect(id, c)
SpecRename == InitAssign /\ [][NextRename]_vars

\* the calendar of the ProgressScreen over the days of the clock
NextCalendar ==
  \/ \E date \in Dates : handleDayPress(date)
  \/ Midnight
  \/ Render
SpecCalendar == InitLookup /\ [][NextCalendar]_vars

NextDerive ==
  \/ loadSplitsSaved(FALSE)
  \/ loadSplitsNothing
SpecDerive == InitDerive /\ [][NextDerive]_vars

\* the detail screen, whose add and remove calls finish after their awaits
NextDetail ==
  \/ loadSplitsSaved(FALSE)
  \/ MainVisible /\ toggleProgramEditMode
  \/ MainVisible /\ handleDaySelect(WEEKDAYS[1])
  \/ MainVisible /\ \E i \in 1..Len(splits) : handleSplitPress(i)
  \/ DetailAsync
SpecDetail == InitDetail /\ [][NextDetail]_vars

\* the debounce timer and the saves, under a clock
NextTimed ==
  \/ mounted /\ \E batched \in BOOLEAN : loadSplitsSaved(batched)
  \/ mounted /\ loadSplitsNothing
  \/ mounted /\ loadSplitsFail
  \/ mounted /\ toggleSplitsEditMode
  \/ mounted /\ TimedEdits
  \/ Unmount
  \/ Timed
SpecTimed == InitTimed /\ [][NextTimed]_vars

----------------------------------------------------------------------------
(* Claims *)

\* the splits of s whose day list holds day d
Holders(s, d) == {i \in 1..Len(s) : d \in Range(s[i].days)}

\* C1: in every state reached from the initial load of a Schedule that
\* satisfies exclusivity, each of the 7 weekdays is in the day list of at
\* most one split of the Schedule.
C1_WeekdayExclusive ==
  loadState = "done" =>
    \A d \in Range(WEEKDAYS) : Cardinality(Holders(splits, d)) <= 1

\* days without day d, the others in their order
Without(days, d) == SelectSeq(days, LAMBDA x : x # d)

\* what assigning day d to the i-th split of s must turn s into
AssignPost(s, s2, d, i) ==
  /\ Len(s2) = Len(s)
  /\ \A j \in 1..Len(s) :
       s2[j] = [s[j] EXCEPT !.days = IF j = i THEN Append(Without(@, d), d)
                                     ELSE Without(@, d)]

\* C2: assigning the selected weekday D to a split S leaves D exactly once in
\* S's day list, as its last element, and in no other split; every other
\* weekday stays where it was, in its order; no split is added or removed and
\* no name, color or exercise list changes.
C2_AssignPostcondition ==
  [][\A i \in 1..Len(splits) :
       (editMode = "program" /\ selectedDay # "null" /\ handleSplitPress(i))
         => AssignPost(splits, splits', selectedDay, i)]_vars

\* C3: for every Schedule, weekday D and split S, assigning D to S twice in a
\* row yields the same Schedule as assigning it once.
C3_AssignIdempotent ==
  \A d \in Range(WEEKDAYS), i \in 1..Len(splits) :
    LET once == AssignDay(splits, d, splits[i].id)
    IN AssignDay(once, d, splits[i].id) = once

\* C3: an assignment has just run that left the Schedule as it was: Tue was
\* already the last day of the split loaded with Mon
C3_Witness ==
  /\ ev = "assign"
  /\ selectedDay = "null"
  /\ \E i \in 1..Len(splits) : splits[i].days = <<"Mon", "Tue">>

\* C4: the Schedule never holds more than MaxSplits splits, and Create split
\* on a Schedule of MaxSplits splits leaves the Schedule unchanged.
C4_AtMostSevenSplits ==
  /\ [](Len(splits) <= MaxSplits)
  /\ [][(ev' = "create" /\ Len(splits) >= MaxSplits) => splits' = splits]_vars

\* C4: Create split was pressed in splits mode on the loaded Schedule of
\* MaxSplits splits, which is still the Schedule
C4_Witness ==
  /\ ev = "create"
  /\ editMode = "splits"
  /\ splits = BigSchedule(MaxSplits)

\* C5: Create split appends exactly one split with empty name, no days, no
\* exercises and no color, whose id differs from the id of every split
\* already in the Schedule, and leaves the other splits unchanged.
C5_CreateFreshId ==
  [][(ev' = "create" /\ splits' # splits) =>
       LET new == splits'[Len(splits')] IN
       /\ Len(splits') = Len(splits) + 1
       /\ SubSeq(splits', 1, Len(splits)) = splits
       /\ new.name = "" /\ new.days = <<>> /\ new.exercises = <<>>
       /\ new.color = "none"
       /\ \A j \in 1..Len(splits) : splits[j].id # new.id]_vars

\* the timer debouncedSave(data) leaves pending at tick t
TimerOf(data, t) == [data |-> data, due |-> t + Window]

\* the debounce as the Persistence Bridge describes it, for the changes of
\* the Schedule that `covered` holds of: one timer at most, carrying the
\* latest Schedule; no save before the window after the last change is over,
\* one save when it is over, of the Schedule as of the last change
Debounced(covered) ==
  /\ Cardinality(timers) <= 1
  /\ \A t \in timers : mutLog # <<>> /\ t = TimerOf(splits, mutLog[Len(mutLog)])
  /\ (covered /\ mutLog # <<>>) =>
       LET last == mutLog[Len(mutLog)] IN
       /\ savesSince <= 1
       /\ now < last + Window => savesSince = 0
       /\ now > last + Window => savesSince = 1
       /\ savesSince = 1 =>
            lastSave = <<[at |-> last + Window, data |-> splits]>>

\* C6: Schedule mutations at 0, 100 and 200 ms and none afterwards start
\* exactly one save, at 700 ms, of the Schedule as of 200 ms; each mutation
\* cancels the pending timer and starts a new one, so at most one timer is
\* pending at any time and it carries the latest Schedule.  Stated for the
\* mutations made once loadSplits has ended, while the screen is mounted.
C6_DebounceCoalesces == Debounced(mounted /\ logAfterLoad)

\* the same where loadSplits has ended without throwing
DebounceWhenLoaded == Debounced(mounted /\ logAfterLoad /\ loadState = "done")

\* changes at ticks 0, 1 and 2 after the load, and at tick 7 the one save
DebounceWhenLoadedSeen ==
  /\ mutLog = <<0, 1, 2>>
  /\ logAfterLoad /\ mounted /\ loadState = "done"
  /\ now = 7
  /\ savesSince = 1
  /\ lastSave = <<[at |-> 7, data |-> splits]>>

\* C7: once mutations stop, a final save is started of the Schedule after the
\* last mutation, so no mutation is left permanently unsaved: when the load
\* is over and the Schedule holds a change no save was started for, a timer
\* carrying the Schedule is pending.
C7_FinalWrite ==
  (mounted /\ loadState # "pending" /\ mutLog # <<>> /\ savesSince = 0)
    => \E t \in timers : t.data = splits

\* the handlers of the Split Editor operations
EditorOps ==
  {"assign", "create", "rename", "recolor", "delete", "detailUpdate",
   "updateSplits"}

\* the roster is the one derived from the Schedule, and the debounced save
\* of the Schedule has just been started
RecomputedAndSaving(s, roster, pending, t) ==
  /\ roster = processSplitsData(s)
  /\ TimerOf(s, t) \in pending

\* C8: every operation that changes the Schedule (create, delete, rename,
\* recolor, assign weekday, split-detail update) is followed, before the next
\* event is handled, by a recompute of the roster from the new Schedule and
\* by the start of a debounced save of it.
C8_RecomputeAndSave ==
  [][(ev' \in EditorOps /\ splits' # splits)
       => RecomputedAndSaving(splits', exercises', timers', now')]_vars

\* C9: after the initial load has thrown, every operation still updates the
\* roster to match the Schedule and still triggers the debounced save.
C9_LoadFailureNotFatal ==
  [][(loadState = "failed" /\ ev' \in EditorOps /\ splits' # splits)
       => RecomputedAndSaving(splits', exercises', timers', now')]_vars

\* C10: a save that fails leaves the Schedule and the edit mode unchanged and
\* starts no timer and no retry; the next mutation starts a normal debounce
\* cycle with the Schedule as it then is.
C10_SaveFailureHarmless ==
  [][/\ (ev' = "saveError" /\ saving' # saving) =>
          /\ UNCHANGED <<splits, editMode, timers, saveTimeoutRef>>
          /\ saving' \subseteq saving
     /\ (ev = "saveError" /\ splits' # splits) =>
          /\ timers' = {TimerOf(splits', now')}
          /\ saveTimeoutRef' = <<TimerOf(splits', now')>>]_vars

\* C10: a save has just failed: storage does not hold the Schedule, nothing
\* is in flight and no timer is pending
C10_Witness ==
  /\ ev = "saveError"
  /\ mounted
  /\ splits # storedSplits
  /\ saving = {}
  /\ timers = {}

\* C11: no Split Editor operation changes the Schedule outside its matching
\* mode: rename, recolor, create and delete change it only when editMode is
\* "splits", assign-weekday only when editMode is "program" and a weekday is
\* selected, add-exercise and remove-exercise only while the split detail
\* screen is in its editing state.
C11_ModeGate ==
  [][splits' # splits =>
       /\ ev' \in {"rename", "recolor", "create", "delete"}
            => editMode = "splits"
       /\ ev' = "assign" => editMode = "program" /\ selectedDay # "null"
       /\ ev' \in {"addExercise", "removeExercise", "updateSplits",
                   "detailUpdate"} => isEditing]_vars

\* the exercise lists of s, one after the other
RECURSIVE Flat(_)
Flat(s) == IF s = <<>> THEN <<>> ELSE Head(s).exercises \o Flat(Tail(s))

\* the first position of q at which P holds
First(q, P(_)) ==
  CHOOSE i \in 1..Len(q) : P(q[i]) /\ \A j \in 1..(i - 1) : ~P(q[j])

\* no value is twice in q
NoRepeat(q) == \A a, b \in 1..Len(q) : a # b => q[a] # q[b]

Ids(q) == [i \in 1..Len(q) |-> q[i].id]

\* r is the roster the derivation contract asks for of Schedule s
RosterOf(s, r) ==
  /\ NoRepeat(Ids(r))
  /\ Range(Ids(r)) = Range(Ids(Flat(s)))
  /\ \A a, b \in 1..Len(r) :
       a < b => First(Flat(s), LAMBDA e : e.id = r[a].id)
                  < First(Flat(s), LAMBDA e : e.id = r[b].id)
  /\ \A a \in 1..Len(r) :
       LET lists(x) == r[a].id \in Range(Ids(x.exercises))
           owners == SelectSeq(s, lists)
       IN /\ NoRepeat(r[a].splitIds)
          /\ Range(r[a].splitIds) = Range(Ids(owners))
          /\ \A p, q \in 1..Len(r[a].splitIds) :
               p < q => First(owners, LAMBDA x : x.id = r[a].splitIds[p])
                          < First(owners, LAMBDA x : x.id = r[a].splitIds[q])

\* C12: the derived roster has exactly one entry per distinct exercise id of
\* the Schedule, in first-seen order, and the splitIds of an entry are,
\* without duplicates and in split order, the ids of the splits whose
\* exercise list contains its id; the empty Schedule yields an empty roster
\* and no sections.
C12_DerivedSplitIds ==
  loadState = "done" =>
    /\ exercises = processSplitsData(splits)
    /\ RosterOf(splits, exercises)
    /\ splits = <<>> => exercises = <<>> /\ bodyPartSections(exercises) = <<>>

\* C12: a Schedule was loaded in which one split lists an exercise twice and
\* another split lists it too
C12_Witness ==
  /\ ev = "loadSaved"
  /\ Len(splits) = 2
  /\ splits[1].id # splits[2].id
  /\ Ids(splits[1].exercises) = <<"chest-1", "chest-1">>
  /\ "chest-1" \in Range(Ids(splits[2].exercises))
  /\ exercises[1].splitIds = <<splits[1].id, splits[2].id>>

\* the exercises of roster r whose body part is bp, in roster order
OfBodyPart(r, bp) == SelectSeq(r, LAMBDA e : e.bodyPart = bp)

BodyParts(q) == [i \in 1..Len(q) |-> q[i].bodyPart]

\* C13: the body-part sections appear in the order in which each body part
\* is first seen in the roster, each section lists its exercises in roster
\* order, every roster exercise is in exactly one section, the one named by
\* its bodyPart, and no section is empty.
C13_GroupingOrder ==
  loadState = "done" =>
    LET g == bodyPartSections(exercises) IN
    /\ NoRepeat(BodyParts(g))
    /\ Range(BodyParts(g)) = Range(BodyParts(exercises))
    /\ \A a, b \in 1..Len(g) :
         a < b => First(exercises, LAMBDA e : e.bodyPart = g[a].bodyPart)
                    < First(exercises, LAMBDA e : e.bodyPart = g[b].bodyPart)
    /\ \A a \in 1..Len(g) :
         /\ g[a].exercises = OfBodyPart(exercises, g[a].bodyPart)
         /\ g[a].exercises # <<>>

\* C13: a roster was derived in which Legs is first seen before Chest and
\* chest-2 before chest-1, and the sections keep both orders
C13_Witness ==
  /\ ev = "loadSaved"
  /\ Ids(exercises) = <<"legs-1", "chest-2", "chest-1">>
  /\ BodyParts(bodyPartSections(exercises)) = <<"Legs", "Chest">>
  /\ Ids(bodyPartSections(exercises)[2].exercises) = <<"chest-2", "chest-1">>

\* the exercise lists of sections g, one after the other
RECURSIVE Flatten(_)
Flatten(g) == IF g = <<>> THEN <<>> ELSE Head(g).exercises \o Flatten(Tail(g))

\* C14: concatenating the exercise lists of the sections in section order
\* recovers exactly the deduplicated roster.
C14_RoundTrip ==
  loadState = "done" => Flatten(bodyPartSections(exercises)) = exercises

\* C14, amended: concatenating the exercise lists of the sections gives the
\* entries of the roster, each once, the entries of one body part in their
\* roster order; it is the roster itself when the entries of each body part
\* are next to each other in the roster.
C14_FlattenPermutes ==
  loadState = "done" =>
    LET flat == Flatten(bodyPartSections(exercises)) IN
    /\ Len(flat) = Len(exercises)
    /\ Range(flat) = Range(exercises)
    /\ \A bp \in Range(BodyParts(exercises)) :
         OfBodyPart(flat, bp) = OfBodyPart(exercises, bp)
    /\ (\A a, b, c \in 1..Len(exercises) :
          (a < b /\ b < c /\ exercises[a].bodyPart = exercises[c].bodyPart)
            => exercises[b].bodyPart = exercises[a].bodyPart)
         => flat = exercises

\* C14: a roster Chest, Legs, Chest was derived: flattening its sections
\* gives the two Chest entries first
C14_Witness ==
  /\ ev = "loadSaved"
  /\ Ids(exercises) = <<"chest-1", "legs-1", "chest-2">>
  /\ Ids(Flatten(bodyPartSections(exercises))) = <<"chest-1", "chest-2", "legs-1">>

\* the positions of s that hold a split whose id is not id
Kept(s, id) == {i \in 1..Len(s) : s[i].id # id}

\* the k-th smallest member of the set of positions K
Kth(K, k) == CHOOSE i \in K : Cardinality({j \in K : j <= i}) = k

\* s2 is s without the splits whose id is id, the others as they were and in
\* their order
DeletePost(s, s2, id) ==
  /\ Len(s2) = Cardinality(Kept(s, id))
  /\ \A k \in 1..Len(s2) : s2[k] = s[Kth(Kept(s, id), k)]
  /\ (\A i \in 1..Len(s) : s[i].id # id) => s2 = s

\* C15: delete split, in "splits" mode, removes from the Schedule the split
\* whose id is the given id and nothing else: the other splits keep their
\* fields and their order, and when no split has that id the Schedule is
\* unchanged.
C15_DeleteFrame ==
  [][\A id \in IdsAsked :
       (editMode = "splits" /\ handleDeleteSplit(id))
         => DeletePost(splits, splits', id)]_vars

\* C15: a split of the loaded Schedule of MaxSplits splits was deleted, the
\* others are there in their order
C15_Witness ==
  /\ ev = "delete"
  /\ editMode = "splits"
  /\ Len(splits) = MaxSplits - 1
  /\ \E i \in 1..MaxSplits : DeletePost(BigSchedule(MaxSplits), splits, i)

\* the exercise lists of the Schedule s are those of the Schedule s0, but for
\* the splits of the given id, whose list is f applied to the list they had
ListsChangedBy(s0, s, id, f(_)) ==
  /\ Len(s) = Len(s0)
  /\ \A i \in 1..Len(s0) :
       s[i].exercises = IF s0[i].id = id THEN f(s0[i].exercises)
                        ELSE s0[i].exercises

\* C16: a call of add exercises on the open split with the list l hands to
\* updateSplits, once its awaits are over, a Schedule where that split's
\* exercise list is the list it had in the Schedule at the call followed by
\* l, and every other split's exercise list is as it was.
C16_AddAppendOnly ==
  [][\A l \in AddLists :
       (selection # <<>> /\ handleAddExercise(l))
         => \A u \in pendingUpdates' \ pendingUpdates :
              ListsChangedBy(splits, u, selectedSplitDetail[1].id,
                             LAMBDA list : list \o l)]_vars

\* C17: in every reachable state no split of the Schedule has two entries of
\* the same exercise id in its exercise list.
C17_ExerciseUnique ==
  \A i \in 1..Len(splits) : NoRepeat(Ids(splits[i].exercises))

\* the list q without its entry at position index (counted from 1); q itself
\* when it has no such position
RemoveAt(q, index) ==
  IF index \notin 1..Len(q) THEN q
  ELSE SubSeq(q, 1, index - 1) \o SubSeq(q, index + 1, Len(q))

\* C18: a call of remove exercise at a position of the open split's list
\* hands to updateSplits, once its awaits are over, a Schedule where that
\* split's exercise list is the list it had in the Schedule at the call
\* without the entry at that position, the other entries in their order, and
\* every other split's exercise list is as it was.
C18_RemoveAtIndex ==
  [][\A index \in 1..Len(detailExercises) :
       (DetailVisible /\ isEditing /\ handleRemoveExercise(index))
         => \A u \in pendingUpdates' \ pendingUpdates :
              ListsChangedBy(splits, u, selectedSplitDetail[1].id,
                             LAMBDA list : RemoveAt(list, index))]_vars

\* what loadSplits finds: the saved splits when there are any, the default
\* state otherwise
Loaded == IF Len(storedSplits) > 0 THEN storedSplits ELSE defaultSplits

LoadCompletes == ev' \in {"loadSaved", "loadDefault", "loadNothing"}

\* C19 as stated: the load that completes puts in memory the saved Schedule
\* when it is non-empty and the default Schedule otherwise, and the roster is
\* the one derived from the Schedule loaded.
C19_LoadFallback ==
  [][LoadCompletes
       => splits' = Loaded /\ exercises' = processSplitsData(Loaded)]_vars

\* C19, amended: the load that completes puts in memory the saved Schedule
\* when it is non-empty, otherwise the default Schedule when that one is
\* non-empty, with the roster derived from the Schedule loaded; when both are
\* empty it leaves the Schedule in memory and the roster as they are.
C19_LoadFallbackOrKeep ==
  [][LoadCompletes
       => IF Loaded # <<>>
          THEN splits' = Loaded /\ exercises' = processSplitsData(Loaded)
          ELSE UNCHANGED <<splits, exercises>>]_vars

\* C19: no saved splits, the default state was loaded over a split created
\* before the load completed
C19_Witness ==
  /\ ev = "loadDefault"
  /\ storedSplits = <<>>
  /\ splits = DefaultSchedule
  /\ exercises = processSplitsData(DefaultSchedule)
  /\ dateNow > 10

\* the weekday name of a date of the calendar: day 1 is a Monday
WeekdayName(date) ==
  CASE date % 7 = 0 -> "Sun" [] date % 7 = 1 -> "Mon" [] date % 7 = 2 -> "Tue"
    [] date % 7 = 3 -> "Wed" [] date % 7 = 4 -> "Thu" [] date % 7 = 5 -> "Fri"
    [] date % 7 = 6 -> "Sat"

LookedUp == IF selectedDate # <<>> THEN selectedDate[1] ELSE todayString

\* C20: the lookup of the split scheduled for the date shown gives a split
\* whose day-set holds the weekday name of that date when the Schedule has
\* such a split, and no result when it has none.  (The lookup is a value
\* computed from the state: it changes nothing.)
C20_SessionLookup ==
  LET name == WeekdayName(LookedUp)
      scheduled == {i \in 1..Len(splits) : name \in Range(splits[i].days)}
  IN IF scheduled # {}
     THEN /\ scheduledSplit # <<>>
          /\ name \in Range(scheduledSplit[1].days)
     ELSE scheduledSplit = <<>>

\* the splits of s2 are those of s but for their exercise lists
SameButExercises(s, s2) ==
  /\ Len(s2) = Len(s)
  /\ \A i \in 1..Len(s) :
       /\ s2[i].id = s[i].id
       /\ s2[i].name = s[i].name
       /\ s2[i].days = s[i].days
       /\ s2[i].color = s[i].color

\* C21: while an add-exercise or remove-exercise call has read the Schedule
\* and not yet written its result, no other event changes the Schedule; and
\* the Schedule the call writes overwrites nothing another operation set:
\* it differs from the Schedule it replaces in exercise lists only.
C21_NoLostUpdate ==
  [][/\ (pendingUpdates # {} /\ ev' # "updateSplits") => splits' = splits
     /\ ev' = "updateSplits" => SameButExercises(splits, splits')]_vars

EditModes == {"none", "program", "splits"}

\* C22: the edit mode is one of "none", "program", "splits"; it changes only
\* by the program toggle, between "none" and "program", and by the splits
\* toggle, between "none" and "splits"; a toggle pressed in the other
\* toggle's mode leaves the mode as it is.
C22_EditModeMachine ==
  [][/\ editMode \in EditModes /\ editMode' \in EditModes
     /\ editMode' # editMode =>
          \/ /\ ev' = "toggleProgram"
             /\ <<editMode, editMode'>> \in
                  {<<"none", "program">>, <<"program", "none">>}
          \/ /\ ev' = "toggleSplits"
             /\ <<editMode, editMode'>> \in
                  {<<"none", "splits">>, <<"splits", "none">>}
     /\ (ev' = "toggleProgram" /\ editMode = "splits") => editMode' = "splits"
     /\ (ev' = "toggleSplits" /\ editMode = "program") => editMode' = "program"
    ]_vars

\* C22: the program toggle was pressed in "splits" mode
C22_Witness ==
  /\ ev = "toggleProgram"
  /\ editMode = "splits"
  /\ loadState = "done"

\* s2 is s with the splits of the given id changed by f and the others as
\* they were, in the same number and order
OnlySplitChanged(s, s2, id, f(_)) ==
  /\ Len(s2) = Len(s)
  /\ \A i \in 1..Len(s) : s2[i] = IF s[i].id = id THEN f(s[i]) ELSE s[i]
  /\ (\A i \in 1..Len(s) : s[i].id # id) => s2 = s

\* C23: rename and recolor, in "splits" mode, set the name, respectively the
\* color, of the split whose id matches and nothing else: its id, days and
\* exercises, the other splits, their number and their order are as they
\* were; when no split has the id the Schedule is as it was; the empty name
\* is accepted.
C23_RenameRecolorFrame ==
  [][/\ \A id \in IdsAsked, n \in NamesAsked :
          (editMode = "splits" /\ handleSplitNameEdit(id, n))
            => OnlySplitChanged(splits, splits', id,
                 LAMBDA sp : [id |-> sp.id, name |-> n, days |-> sp.days,
                              color |-> sp.color, exercises |-> sp.exercises])
     /\ \A id \in IdsAsked, c \in ColorsAsked :
          (editMode = "splits" /\ handleColorSelect(id, c))
            => OnlySplitChanged(splits, splits', id,
                 LAMBDA sp : [id |-> sp.id, name |-> sp.name, days |-> sp.days,
                              color |-> c, exercises |-> sp.exercises])]_vars

\* C23: the first split of the loaded Schedule was given the empty name
\* after a new color; the second split is as it was loaded
C23_Witness ==
  /\ ev = "rename"
  /\ Len(splits) = 2
  /\ splits[1] = [SavedSchedule[1] EXCEPT !.name = "", !.color = COLORS[6]]
  /\ splits[2] = SavedSchedule[2]

\* C24: isFutureDate is true exactly when a date is selected and it is a
\* later day than today, as the last render read it, and false when no date
\* is selected; and after a day press the selected date is never today's
\* date.
C24_FutureDate ==
  /\ isFutureDate <=> (selectedDate # <<>> /\ selectedDate[1] > todayString)
  /\ ev = "dayPress" => selectedDate # <<todayString>>

\* C25: the Schedule an add-exercise or remove-exercise call hands to
\* updateSplits has, for every split and so for the target, the name, color
\* and day list the split has in the Schedule at the call: the call changes
\* exercise lists only.
C25_OnlyExercisesChange ==
  [][ev' \in {"addExercise", "removeExercise"}
       => \A u \in pendingUpdates' \ pendingUpdates :
            SameButExercises(splits, u)]_vars

\* C26: the splits the editor put in the Schedule while the initial load was
\* outstanding (the Schedule is empty until then) are in the Schedule after
\* the load completes.
C26_LoadKeepsEdits ==
  [][LoadCompletes
       => \A i \in 1..Len(splits) :
            \E j \in 1..Len(splits') : splits'[j] = splits[i]]_vars

\* C27: as long as isInitialLoadRef is true no debounce timer is pending, no
\* save is in flight and what is stored is as it was: nothing is written
\* before the initial load has completed.
C27_NoSaveBeforeLoad ==
  [][isInitialLoadRef'
       => /\ timers' = {} /\ saveTimeoutRef' = <<>>
          /\ saving' = {} /\ lastSave' = <<>>
          /\ storedSplits' = storedSplits]_vars

\* C27: saved data exists, the load is outstanding, a split was created and
\* more than the debounce window has passed since
C27_Witness ==
  /\ isInitialLoadRef /\ loadState = "pending" /\ mounted
  /\ storedSplits # <<>>
  /\ splits # <<>>
  /\ mutLog # <<>> /\ now > mutLog[Len(mutLog)] + Window

\* C28: the split detail screen saves its exercise list only after the load
\* of the split's exercises has completed: the last saveSplitExercises call
\* of the screen that is open was made with the load resolved.
C28_LoadBeforeSave ==
  (selectedSplitDetail # <<>> /\ lastExerciseSave # <<>>)
    => lastExerciseSave[1].loaded

\* C29: a weekday is selected only in "program" mode; leaving "program" mode
\* clears the selection, a completed assignment clears it, and selecting the
\* day that is selected clears it.
C29_DaySelectedInProgramMode ==
  [][/\ selectedDay # "null" => editMode = "program"
     /\ selectedDay' # "null" => editMode' = "program"
     /\ (ev' = "toggleProgram" /\ editMode = "program") => selectedDay' = "null"
     /\ ev' = "assign" => selectedDay' = "null"
     /\ \A day \in Days :
          (editMode = "program" /\ selectedDay = day /\ handleDaySelect(day))
            => selectedDay' = "null"]_vars

\* C29: in "program" mode the selected day was pressed again
C29_Witness ==
  /\ ev = "daySelect"
  /\ editMode = "program"
  /\ selectedDay = "null"
  /\ loadState = "done"

\* C30: when the screen unmounts the pending debounce timer is cancelled: no
\* timer is pending and no save is started once the screen is unmounted; the
\* saves in flight at unmount stay in flight.
C30_NoSaveAfterTeardown ==
  [][/\ ~mounted' => timers' = {}
     /\ ~mounted => ev' # "saveStart" /\ ~(saving' \ saving # {})
     /\ ev' = "unmount" => saving' = saving]_vars

\* C30: the screen was unmounted with a save in flight and with a change of
\* the Schedule, made after that save started, whose timer was pending
C30_Witness ==
  /\ ev = "unmount" /\ ~mounted
  /\ ~isInitialLoadRef
  /\ saving # {}
  /\ lastSave # <<>> /\ savesSince = 0
  /\ saveTimeoutRef # <<>> /\ saveTimeoutRef[1].due > now
  /\ timers = {}

====
